---- MODULE Spec2Model ----
(***************************************************************************)
(* Model of e4990a.py, the acquisition script for the Keysight E4990A.    *)
(*                                                                         *)
(* One run of main() is a sequential state machine.  `pc` is the position  *)
(* in the script, `log` the ordered list of everything sent to the         *)
(* instrument (each entry stamped with the clock), `exc` the exception in  *)
(* flight.  Every instrument write or query may raise (a transport error), *)
(* so each action either completes its whole block of commands or stops at *)
(* the k-th command and transfers control to the enclosing handler.        *)
(*                                                                         *)
(* Numeric text is fixed point in tenths ("0.5" is 5, "3" is 30), so that  *)
(* int(float(s)) truncates.  Voltages in the INI file are in units of      *)
(* 0.1 mV, so that round(v, 3) rounds to millivolts.  Time is in whole     *)
(* ticks and advances only while the instrument sweeps (the *OPC? query)   *)
(* and while the script sleeps.                                            *)
(***************************************************************************)
EXTENDS Integers, Sequences, FiniteSets, TLC

VARIABLES pc, exc, log, args, cfg, conn, clock, sw, hist, file

vars == <<pc, exc, log, args, cfg, conn, clock, sw, hist, file>>

(* ---- bounds of the model ---------------------------------------------- *)
MaxPoints == 2
MaxSegments == 2
MaxIntervals == 2
MaxPeriod == 2
MaxAcq == 2

(* Python's None, and the argument slot of a command that has none. *)
None == 0 - 1
NoArg == 0 - 2

(* ---- conversions -------------------------------------------------------- *)

\* int(float(s)): truncation toward zero of a text in tenths
to_int(s) ==
    IF s = None THEN None
    ELSE IF s >= 0 THEN s \div 10 ELSE 0 - ((0 - s) \div 10)

\* round(float(s), 3): text in 0.1 mV to millivolts, ties to even
to_float(s) ==
    IF s = None THEN None
    ELSE LET q == s \div 10
             r == s % 10
         IN  IF r > 5 \/ (r = 5 /\ q % 2 = 1) THEN q + 1 ELSE q

\* Python truthiness of an optional number
Truthy(v) == v # None /\ v # 0

RECURSIVE SumPoints(_)
\* sum(segments[:,2]) over the converted segment table
SumPoints(segs) ==
    IF segs = <<>> THEN 0
    ELSE to_int(Head(segs)[3]) + SumPoints(Tail(segs))

\* y[::2] taken one position late
Evens_late(y) == [k \in 1..(Len(y) \div 2) |-> y[2 * k]]

\* y[::2]
Evens(y) == [k \in 1..((Len(y) + 1) \div 2) |-> y[2 * k - 1]]

\* y[1::2]
Odds(y) == [k \in 1..(Len(y) \div 2) |-> y[2 * k]]

\* numpy.array_equal
array_equal(a, b) ==
    /\ Len(a) = Len(b)
    /\ \A k \in 1..Len(a) : a[k] = b[k]

\* numpy.zeros with the dimensions swapped
zeros_transposed(rows, cols) == [c \in 1..rows |-> [r \in 1..cols |-> 0]]

\* numpy.zeros((rows, cols)), kept as a sequence of columns
zeros(rows, cols) == [c \in 1..cols |-> [r \in 1..rows |-> 0]]

(* ---- instrument commands ------------------------------------------------ *)
Write(c, a) == [op |-> "write", cmd |-> c, arg |-> a, t |-> 0]
Query(c) == [op |-> "query", cmd |-> c, arg |-> NoArg, t |-> 0]

\* the commands as they go out, stamped with the current clock
Stamp(cmds, now) == [k \in 1..Len(cmds) |-> [cmds[k] EXCEPT !.t = now]]

(* ---- configuration files ------------------------------------------------ *)

\* the `segments` key: absent, or its text as a list of (start, stop, points)
NoSegments == [given |-> FALSE, table |-> <<>>]
SegmentsText(tbl) == [given |-> TRUE, table |-> tbl]

\* one segment of p points, as text
Segment(p) == <<10000, 20000, 10 * p>>

\* `segments =` (empty text) and tables of one to MaxSegments segments whose
\* point counts add up to at most MaxPoints
SegmentTables ==
    {<<>>} \cup
    { tbl \in UNION { [1..n -> {Segment(p) : p \in 1..MaxPoints}] : n \in 1..MaxSegments } :
        SumPoints(tbl) <= MaxPoints }

\* what the INI file holds when nothing is varied
BaseFile ==
    [ ip_address |-> 1,
      start_frequency |-> 10000,
      stop_frequency |-> 20000,
      number_of_points |-> 1,
      segments |-> NoSegments,
      measurement_speed |-> 1,
      number_of_sweep_averages |-> 1,
      number_of_point_averages |-> 1,
      oscillator_voltage |-> 5000,
      bias_voltage |-> 0,
      number_of_intervals |-> 1,
      interval_period |-> 0,
      plotting_enabled |-> FALSE ]

\* files that vary the frequency plan: every combination of the segments key
\* and the three linear keys (absent, zero, below one, ordinary)
PlanFiles ==
    { [BaseFile EXCEPT !.segments = sg, !.start_frequency = a,
                       !.stop_frequency = b, !.number_of_points = n] :
        sg \in {NoSegments} \cup {SegmentsText(tbl) : tbl \in SegmentTables},
        a \in {None, 0, 5, 10000},
        b \in {None, 20000},
        n \in {None} \cup 1..MaxPoints }

\* files that vary the resource address and the averaging settings
SetupFiles ==
    { [BaseFile EXCEPT !.ip_address = ip, !.number_of_sweep_averages = sa,
                       !.number_of_point_averages = pa] :
        ip \in {None, 1}, sa \in {1, 2}, pa \in {1, 2} }

\* the largest linear plan and the longest segment table of the model
LinearPlan == [BaseFile EXCEPT !.number_of_points = MaxPoints]
SegmentedPlan ==
    [BaseFile EXCEPT !.segments =
                         SegmentsText([k \in 1..(IF MaxSegments <= MaxPoints
                                                 THEN MaxSegments ELSE MaxPoints)
                                         |-> Segment(1)]),
                     !.start_frequency = None,
                     !.stop_frequency = None,
                     !.number_of_points = None]

\* files with a well-formed plan that vary the acquisition settings
RunFiles ==
    { [pl EXCEPT !.bias_voltage = bv, !.number_of_intervals = ni,
                 !.interval_period = ip, !.plotting_enabled = pe] :
        pl \in {LinearPlan, SegmentedPlan},
        bv \in {0, 4, 1000},
        ni \in 0..MaxIntervals,
        ip \in 0..MaxPeriod,
        pe \in BOOLEAN }

ConfigFiles == PlanFiles \cup SetupFiles \cup RunFiles

\* Configuration(...) as read_config builds it from the parser
Configuration(f) ==
    [ ip_address |-> f.ip_address,
      start_frequency |-> to_int(f.start_frequency),
      stop_frequency |-> to_int(f.stop_frequency),
      number_of_points |-> f.number_of_points,
      segments |-> f.segments,
      measurement_speed |-> f.measurement_speed,
      number_of_sweep_averages |-> f.number_of_sweep_averages,
      number_of_point_averages |-> f.number_of_point_averages,
      oscillator_voltage |-> to_float(f.oscillator_voltage),
      bias_voltage |-> to_float(f.bias_voltage),
      number_of_intervals |-> f.number_of_intervals,
      interval_period |-> f.interval_period,
      plotting_enabled |-> f.plotting_enabled ]

\* `cfg.segments and any(linear_sweep_params)`
ConflictingParams(c) ==
    /\ c.segments.given /\ c.segments.table # <<>>
    /\ \/ Truthy(c.start_frequency)
       \/ Truthy(c.stop_frequency)
       \/ Truthy(c.number_of_points)

(* ---- state -------------------------------------------------------------- *)

\* locals of run_sweep
NoSweep ==
    [ number_of_points |-> None,
      x |-> <<>>,
      fix_cmp_frequencies |-> <<>>,
      fix_cmp_number_of_points |-> None,
      yx |-> <<>>,
      yr |-> <<>>,
      bias_current_measurement |-> <<>>,
      bias_voltage_measurement |-> <<>>,
      start_time |-> 0,
      i |-> 0 ]

Init ==
    /\ pc = "parse_args"
    /\ exc = "none"
    /\ log = <<>>
    /\ args = [fixture_compensation |-> FALSE]
    /\ cfg = Configuration(BaseFile)
    /\ conn = [rm |-> FALSE, listed |-> FALSE, inst |-> "none", closes |-> 0]
    /\ clock = 0
    /\ sw = NoSweep
    /\ hist = [file_read |-> FALSE, raised_at |-> "none", raised_exc |-> "none",
               cfg_from |-> 0, cfg_to |-> 0, cfg_returned |-> FALSE,
               segm_reply |-> None, validated |-> "no",
               rdat |-> <<>>, dc |-> <<>>, sleeps |-> <<>>, saved_at |-> None,
               report |-> "none", exit_code |-> None]
    /\ file = [saved |-> <<>>]

\* hist with the first exception of the run noted: where and of what kind
Noted(h, at, e) ==
    IF h.raised_at = "none" THEN [h EXCEPT !.raised_at = at, !.raised_exc = e] ELSE h

\* an exception of kind e leaves the step at `pc` for the handler h
Raise(e, h) ==
    /\ exc' = e
    /\ pc' = h
    /\ hist' = Noted(hist, pc, e)

\* the k-th command of the block raises: the commands before it went out
IOError(cmds, h) ==
    /\ \E k \in 1..Len(cmds) : log' = log \o Stamp(SubSeq(cmds, 1, k), clock)
    /\ Raise("VisaIOError", h)

\* the whole block went out
Sent(cmds) == log' = log \o Stamp(cmds, clock)

(* ---- main, parse_args, read_config, acquire ----------------------------- *)

\* parse_args: the mode, and the overwrite question when the file exists
ParseArgs ==
    /\ pc = "parse_args"
    /\ \E fc \in BOOLEAN, exists \in BOOLEAN, overwrite \in BOOLEAN :
        /\ args' = [fixture_compensation |-> fc]
        /\ IF ~fc /\ exists /\ ~overwrite
           THEN /\ pc' = "done"
                /\ hist' = [hist EXCEPT !.exit_code = 0]
           ELSE /\ pc' = "read_config"
                /\ hist' = hist
    /\ UNCHANGED <<exc, log, cfg, conn, clock, sw, file>>

\* read_config
ReadConfig ==
    /\ pc = "read_config"
    /\ \E f \in ConfigFiles :
        /\ cfg' = Configuration(f)
        /\ IF ConflictingParams(cfg')
           THEN /\ exc' = "E4990AError"
                /\ pc' = "exit"
                /\ hist' = Noted([hist EXCEPT !.file_read = TRUE], pc, "E4990AError")
           ELSE /\ exc' = exc
                /\ pc' = "discover"
                /\ hist' = [hist EXCEPT !.file_read = TRUE]
    /\ UNCHANGED <<log, args, conn, clock, sw, file>>

\* acquire: resource manager and the choice of the resource name
Discover ==
    /\ pc = "discover"
    /\ IF cfg.ip_address # None
       THEN /\ conn' = [conn EXCEPT !.rm = TRUE]
            /\ pc' = "open"
            /\ UNCHANGED <<exc, hist>>
       ELSE \E resources \in 0..2 :
            /\ conn' = [conn EXCEPT !.rm = TRUE, !.listed = TRUE]
            /\ IF resources = 1
               THEN /\ pc' = "open"
                    /\ UNCHANGED <<exc, hist>>
               ELSE Raise("E4990AError", "exit")
    /\ UNCHANGED <<log, args, cfg, clock, sw, file>>

\* acquire: rm.open_resource and the timeout
OpenResource ==
    /\ pc = "open"
    /\ \/ /\ conn' = [conn EXCEPT !.inst = "open"]
          /\ pc' = IF args.fixture_compensation THEN "fixture" ELSE "sweep"
          /\ UNCHANGED <<exc, hist>>
       \/ /\ conn' = conn
          /\ Raise("E4990AError", "exit")
    /\ UNCHANGED <<log, args, cfg, clock, sw, file>>

(* ---- run_sweep: identification ------------------------------------------ *)

\* run_sweep called without the inner try/finally
SweepHandler_unguarded == "close"

\* where an exception raised inside run_sweep lands: the inner finally
SweepHandler == "bias_off"

\* where an exception raised inside run_fixture_compensation lands
FixtureHandler == "close"

IdentifyCommands ==
    << Query("*IDN?"), Query("*OPT?"), Write("*CLS", NoArg),
       Query(":SENS:FIXT:SEL?"), Query(":SENS1:CORR2:OPEN?"),
       Query(":SENS1:CORR2:SHOR?") >>

\* run_sweep up to the call of configure_sweep_parameters
Identify ==
    /\ pc = "sweep"
    /\ \/ /\ Sent(IdentifyCommands)
          /\ pc' = "sweep_configure"
          /\ UNCHANGED <<exc, hist>>
       \/ IOError(IdentifyCommands, SweepHandler)
    /\ UNCHANGED <<args, cfg, conn, clock, sw, file>>

(* ---- configure_sweep_parameters ----------------------------------------- *)

\* the trigger set-up firing a first sweep while arming
TriggerSetup_armed ==
    << Write(":INIT1:CONT ON", NoArg), Write(":TRIG:SOUR BUS", NoArg),
       Write(":TRIG:SING", NoArg),
       Write(":CALC1:PAR1:DEF R", NoArg), Write(":CALC1:PAR2:DEF X", NoArg) >>

TriggerSetup ==
    << Write(":INIT1:CONT ON", NoArg), Write(":TRIG:SOUR BUS", NoArg),
       Write(":CALC1:PAR1:DEF R", NoArg), Write(":CALC1:PAR2:DEF X", NoArg) >>

\* the segmented branch up to the read-back of the point count
SegmentCommands(c) ==
    << Write(":SENS1:SWE:TYPE SEGM", NoArg),
       Write(":SENS1:SEGM:DATA", Len(c.segments.table)),
       Query(":SENS1:SEGM:SWE:POIN?") >>

\* the linear branch with a read-back of the point count
LinearCommands_readback(c) ==
    << Write(":SENS1:SWE:TYPE LIN", NoArg),
       Write(":SENS1:FREQ:START", c.start_frequency),
       Write(":SENS1:FREQ:STOP", c.stop_frequency),
       Write(":SENS1:SWE:POIN", c.number_of_points),
       Query(":SENS1:SWE:POIN?") >>

\* the linear branch
LinearCommands(c) ==
    << Write(":SENS1:SWE:TYPE LIN", NoArg),
       Write(":SENS1:FREQ:START", c.start_frequency),
       Write(":SENS1:FREQ:STOP", c.stop_frequency),
       Write(":SENS1:SWE:POIN", c.number_of_points) >>

\* averaging with sweep averaging switched on from a count of one
AveragingCommands_from_one(c) ==
    << Write(":SENS1:AVER:COUN", c.number_of_point_averages),
       Write(":SENS1:AVER:STAT ON", NoArg),
       Write(":SENS1:APER:TIME", c.measurement_speed) >> \o
    ( IF c.number_of_sweep_averages >= 1
      THEN << Write(":TRIG:SEQ:AVER ON", NoArg), Write(":CALC1:AVER ON", NoArg),
              Write(":CALC1:AVER:COUN", c.number_of_sweep_averages) >>
      ELSE << Write(":CALC1:AVER OFF", NoArg) >> )

\* averaging and aperture, common to both branches
AveragingCommands(c) ==
    << Write(":SENS1:AVER:COUN", c.number_of_point_averages),
       Write(":SENS1:AVER:STAT ON", NoArg),
       Write(":SENS1:APER:TIME", c.measurement_speed) >> \o
    ( IF c.number_of_sweep_averages > 1
      THEN << Write(":TRIG:SEQ:AVER ON", NoArg), Write(":CALC1:AVER ON", NoArg),
              Write(":CALC1:AVER:COUN", c.number_of_sweep_averages) >>
      ELSE << Write(":CALC1:AVER OFF", NoArg) >> )

\* the point-count check testing one direction only
SegmentMismatch_below(n, reply) == n > to_int(reply)

\* `number_of_points != to_int(inst.query(':SENS1:SEGM:SWE:POIN?'))`
SegmentMismatch(n, reply) == n # to_int(reply)

\* the point count the linear branch returns
LinearPoints(c) == c.number_of_points

\* what the instrument may answer to a point-count query, as text
PointReplies == { 10 * k : k \in 1..(MaxPoints + 1) }

\* configure_sweep_parameters, called from run_sweep and from
\* run_fixture_compensation
ConfigureSweepParameters ==
    /\ pc \in {"sweep_configure", "fixture_configure"}
    /\ LET h == IF pc = "sweep_configure" THEN SweepHandler ELSE FixtureHandler
           next == IF pc = "sweep_configure" THEN "validate" ELSE "fixture_acquire"
           began == [hist EXCEPT !.cfg_from = Len(log) + 1]
           returned(n, r) ==
               /\ pc' = next
               /\ exc' = exc
               /\ sw' = [sw EXCEPT !.number_of_points = n]
               /\ hist' = [began EXCEPT !.cfg_to = Len(log'),
                                        !.cfg_returned = TRUE,
                                        !.segm_reply = r]
           raised(e, r) ==
               /\ pc' = h
               /\ exc' = e
               /\ sw' = sw
               /\ hist' = Noted([began EXCEPT !.cfg_to = Len(log'),
                                              !.segm_reply = r], pc, e)
       IN  IF cfg.segments.given
           THEN IF cfg.segments.table = <<>>
                THEN \* to_int('') raises after the sweep type was written
                     LET cmds == TriggerSetup \o SubSeq(SegmentCommands(cfg), 1, 1)
                     IN  \/ Sent(cmds) /\ raised("ValueError", None)
                         \/ /\ \E k \in 1..Len(cmds) :
                                  log' = log \o Stamp(SubSeq(cmds, 1, k), clock)
                            /\ raised("VisaIOError", None)
                ELSE LET number_of_points == SumPoints(cfg.segments.table)
                         ask == TriggerSetup \o SegmentCommands(cfg)
                         rest == << Write(":DISP:WIND1:X:SPAC LIN", NoArg) >> \o
                                 AveragingCommands(cfg)
                     IN  \/ \E reply \in PointReplies :
                              IF SegmentMismatch(number_of_points, reply)
                              THEN Sent(ask) /\ raised("E4990AError", reply)
                              ELSE Sent(ask \o rest) /\ returned(number_of_points, reply)
                         \/ /\ \E k \in 1..Len(ask) :
                                  log' = log \o Stamp(SubSeq(ask, 1, k), clock)
                            /\ raised("VisaIOError", None)
                         \/ /\ \E k \in 1..Len(rest) :
                                  log' = log \o Stamp(ask \o SubSeq(rest, 1, k), clock)
                            /\ raised("VisaIOError", 10 * number_of_points)
           ELSE LET cmds == TriggerSetup \o LinearCommands(cfg) \o AveragingCommands(cfg)
                IN  \/ Sent(cmds) /\ returned(LinearPoints(cfg), None)
                    \/ /\ \E k \in 1..Len(cmds) :
                             log' = log \o Stamp(SubSeq(cmds, 1, k), clock)
                       /\ raised("VisaIOError", None)
    /\ UNCHANGED <<args, cfg, conn, clock, file>>

(* ---- run_sweep: fixture-compensation validation ------------------------- *)

\* the frequency axis of a sweep of n points
FreqAxis(n) == [k \in 1..n |-> 1000 * k]

\* open-compensation frequency arrays the instrument may hold for a sweep
\* whose axis is x: the same axis, one element off, one shorter, one longer
FixFrequencies(x) ==
    {x} \cup { [x EXCEPT ![p] = x[p] + 1] : p \in 1..Len(x) }
        \cup { SubSeq(x, 1, Len(x) - 1), Append(x, 1000 * (Len(x) + 1)) }

\* the compensation check comparing sizes only
CompensationInvalid_sizes(n, fix_n, x, fix_x) ==
    n # fix_n \/ Len(x) # Len(fix_x)

\* `number_of_points != fix_cmp_number_of_points or
\*      not numpy.array_equal(x, fix_cmp_frequencies)`
CompensationInvalid(n, fix_n, x, fix_x) ==
    n # fix_n \/ ~array_equal(x, fix_x)

\* the validation with the bias source switched on ahead of the check
ValidateCommands_biased ==
    << Write(":SOUR:BIAS:STAT ON", NoArg),
       Query(":SENS1:FREQ:DATA?"), Query(":SENS1:CORR2:ZME:OPEN:FREQ?"),
       Query(":SENS1:CORR2:ZME:OPEN:POIN?") >>

\* the validation also reading the short-compensation frequencies
ValidateCommands_short ==
    << Query(":SENS1:FREQ:DATA?"), Query(":SENS1:CORR2:ZME:OPEN:FREQ?"),
       Query(":SENS1:CORR2:ZME:OPEN:POIN?"), Query(":SENS1:CORR2:ZME:SHOR:FREQ?") >>

ValidateCommands ==
    << Query(":SENS1:FREQ:DATA?"), Query(":SENS1:CORR2:ZME:OPEN:FREQ?"),
       Query(":SENS1:CORR2:ZME:OPEN:POIN?") >>

\* run_sweep: the three queries and the check
ValidateCompensation ==
    /\ pc = "validate"
    /\ \/ \E n \in IF sw.number_of_points = None THEN 1..MaxPoints
                   ELSE {sw.number_of_points} :
          \E fix_x \in FixFrequencies(FreqAxis(n)), reply \in PointReplies :
            LET x == FreqAxis(n)
                fix_n == to_int(reply)
            IN  /\ Sent(ValidateCommands)
                /\ sw' = [sw EXCEPT !.x = x, !.fix_cmp_frequencies = fix_x,
                                    !.fix_cmp_number_of_points = fix_n]
                /\ IF CompensationInvalid(sw.number_of_points, fix_n, x, fix_x)
                   THEN /\ exc' = "E4990AError"
                        /\ pc' = SweepHandler
                        /\ hist' = Noted([hist EXCEPT !.validated = "fail"],
                                          pc, "E4990AError")
                   ELSE /\ exc' = exc
                        /\ pc' = "read_compensation"
                        /\ hist' = [hist EXCEPT !.validated = "pass"]
       \/ IOError(ValidateCommands, SweepHandler) /\ sw' = sw
    /\ UNCHANGED <<args, cfg, conn, clock, file>>

(* ---- run_sweep: compensation data, sources, buffers --------------------- *)

CompensationDataCommands ==
    << Query(":SENS1:CORR2:ZME:OPEN:DATA?"), Query(":SENS1:CORR2:ZME:SHOR:DATA?") >>

\* run_sweep: the open and short impedance arrays are read for the record
ReadCompensationData ==
    /\ pc = "read_compensation"
    /\ \/ /\ Sent(CompensationDataCommands)
          /\ pc' = "sources"
          /\ UNCHANGED <<exc, hist>>
       \/ IOError(CompensationDataCommands, SweepHandler)
    /\ UNCHANGED <<args, cfg, conn, clock, sw, file>>

\* configure_osc_voltage
OscillatorCommands(volt) ==
    << Write(":SOUR1:MODE VOLT", NoArg), Write(":SOUR1:VOLT", volt) >>

\* oscillator, bias source, DC measurement and marker set-up
SourceCommands(c) ==
    OscillatorCommands(c.oscillator_voltage) \o
    ( IF c.bias_voltage # 0
      THEN << Write(":SOUR1:BIAS:MODE VOLT", NoArg),
              Write(":SOUR1:BIAS:VOLT", c.bias_voltage),
              Write(":SOUR:BIAS:STAT ON", NoArg) >>
      ELSE << >> ) \o
    ( IF c.bias_voltage # 0
      THEN << Write(":SENS1:DC:MEAS:ENAB ON", NoArg) >>
      ELSE << Write(":SENS1:DC:MEAS:ENAB OFF", NoArg) >> ) \o
    << Write(":CALC1:MARK1 ON", NoArg), Write(":CALC1:MARK1:FUNC:TYPE PEAK", NoArg) >>

\* the loop leaving one interval early
LoopNext_early(i, n) == IF i + 1 < n THEN "acquire" ELSE "save"

\* `for i in range(0, cfg.number_of_intervals)`: the body runs again, or the
\* loop is left for the code after it
LoopNext(i, n) == IF i < n THEN "acquire" ELSE "save"

\* run_sweep from configure_osc_voltage to start_time = time.time()
ConfigureSources ==
    /\ pc = "sources"
    /\ \/ /\ Sent(SourceCommands(cfg))
          /\ sw' = [sw EXCEPT
                 !.bias_current_measurement =
                     IF cfg.bias_voltage # 0
                     THEN [c \in 1..cfg.number_of_intervals |-> 0] ELSE <<>>,
                 !.bias_voltage_measurement =
                     IF cfg.bias_voltage # 0
                     THEN [c \in 1..cfg.number_of_intervals |-> 0] ELSE <<>>,
                 !.yx = zeros(sw.number_of_points, cfg.number_of_intervals),
                 !.yr = zeros(sw.number_of_points, cfg.number_of_intervals),
                 !.start_time = clock,
                 !.i = 0]
          /\ pc' = LoopNext(0, cfg.number_of_intervals)
          /\ UNCHANGED <<exc, hist>>
       \/ IOError(SourceCommands(cfg), SweepHandler) /\ sw' = sw
    /\ UNCHANGED <<args, cfg, conn, clock, file>>

(* ---- run_sweep: the acquisition loop ------------------------------------ *)

\* the trigger without the blocking *OPC? query
TriggerCommands_unblocked(c) ==
    ( IF c.bias_voltage # 0
      THEN << Write(":SENS1:DC:MEAS:CLE", NoArg) >> ELSE << >> ) \o
    << Write(":TRIG:SING", NoArg) >>

TriggerCommands(c) ==
    ( IF c.bias_voltage # 0
      THEN << Write(":SENS1:DC:MEAS:CLE", NoArg) >> ELSE << >> ) \o
    << Write(":TRIG:SING", NoArg), Query("*OPC?") >>

\* the loop body up to the return of *OPC?: the sweep takes d ticks
IntervalTrigger ==
    /\ pc = "acquire"
    /\ \/ /\ Sent(TriggerCommands(cfg))
          /\ \E d \in 0..MaxAcq : clock' = clock + d
          /\ pc' = "read"
          /\ UNCHANGED <<exc, hist>>
       \/ IOError(TriggerCommands(cfg), SweepHandler) /\ clock' = clock
    /\ UNCHANGED <<args, cfg, conn, sw, file>>

\* the read-back with the bias monitor read whatever the bias voltage
ReadCommands_always(c) ==
    << Write(":DISP:WIND1:TRAC1:Y:AUTO", NoArg),
       Write(":DISP:WIND1:TRAC2:Y:AUTO", NoArg),
       Write(":CALC1:MARK1:FUNC:EXEC", NoArg),
       Query(":CALC1:DATA:RDAT?"),
       Query(":SENS1:DC:MEAS:DATA:DCI?"), Query(":SENS1:DC:MEAS:DATA:DCV?") >>

ReadCommands(c) ==
    << Write(":DISP:WIND1:TRAC1:Y:AUTO", NoArg),
       Write(":DISP:WIND1:TRAC2:Y:AUTO", NoArg),
       Write(":CALC1:MARK1:FUNC:EXEC", NoArg),
       Query(":CALC1:DATA:RDAT?") >> \o
    ( IF c.bias_voltage # 0
      THEN << Query(":SENS1:DC:MEAS:DATA:DCI?"), Query(":SENS1:DC:MEAS:DATA:DCV?") >>
      ELSE << >> )

\* raw data arrays the instrument may return for a sweep of n points: two
\* values per point, all different, so that every position is told apart
RawData(n) == { [k \in 1..(2 * n) |-> 10 * b + k] : b \in {0, 1} }

\* DC bias monitor readings the instrument may return
BiasReadings == { [dci |-> r, dcv |-> 100 + r] : r \in {1, 2} }

\* the loop body from the auto-scale to the bias read-back
IntervalRead ==
    /\ pc = "read"
    /\ \/ \E y \in RawData(sw.number_of_points), b \in BiasReadings :
            /\ Sent(ReadCommands(cfg))
            /\ sw' = [sw EXCEPT
                   !.yx[sw.i + 1] = Evens(y),
                   !.yr[sw.i + 1] = Odds(y),
                   !.bias_current_measurement =
                       IF cfg.bias_voltage # 0
                       THEN [@ EXCEPT ![sw.i + 1] = b.dci] ELSE @,
                   !.bias_voltage_measurement =
                       IF cfg.bias_voltage # 0
                       THEN [@ EXCEPT ![sw.i + 1] = b.dcv] ELSE @]
            /\ hist' = [hist EXCEPT !.rdat = Append(@, y),
                                    !.dc = IF cfg.bias_voltage # 0
                                           THEN Append(@, b) ELSE @]
            /\ pc' = IF cfg.plotting_enabled THEN "plot" ELSE "pace"
            /\ exc' = exc
       \/ IOError(ReadCommands(cfg), SweepHandler) /\ sw' = sw
    /\ UNCHANGED <<args, cfg, conn, clock, file>>

PlotCommands ==
    << Query(":DISP:WIND1:TRAC1:Y:RLEV?"), Query(":DISP:WIND1:TRAC2:Y:RLEV?"),
       Query(":DISP:WIND1:Y:DIV?"), Query(":DISP:WIND1:TRAC1:Y:PDIV?"),
       Query(":DISP:WIND1:TRAC2:Y:PDIV?") >>

\* the loop body: display scaling queries and pyy.update
IntervalPlot ==
    /\ pc = "plot"
    /\ \/ /\ Sent(PlotCommands)
          /\ pc' = "pace"
          /\ UNCHANGED <<exc, hist>>
       \/ IOError(PlotCommands, SweepHandler)
    /\ UNCHANGED <<args, cfg, conn, clock, sw, file>>

\* pacing against the start of interval i instead of its end
SleepTime_previous(period, i, elapsed) == period * i - elapsed

\* fixed-delay pacing: sleep one period after every acquisition
SleepTime_fixed(period, i, elapsed) == period

\* `cfg.interval_period * (i + 1) - (time.time() - start_time)`
SleepTime(period, i, elapsed) == period * (i + 1) - elapsed

\* the cadence check tolerating one tick of lag
Behind_lenient(sleep_time) == sleep_time < 0 - 1

\* `sleep_time < 0`
Behind(sleep_time) == sleep_time < 0

\* `cfg.interval_period != 0` with the test left out
PacingEnabled_always(period) == TRUE

\* `cfg.interval_period != 0`
PacingEnabled(period) == period # 0

\* the loop body: the pacing check and the sleep, then the next i
IntervalPace ==
    /\ pc = "pace"
    /\ LET sleep_time ==
               SleepTime(cfg.interval_period, sw.i, clock - sw.start_time)
           again ==
               /\ sw' = [sw EXCEPT !.i = sw.i + 1]
               /\ pc' = LoopNext(sw.i + 1, cfg.number_of_intervals)
               /\ exc' = exc
       IN  IF PacingEnabled(cfg.interval_period)
           THEN IF Behind(sleep_time)
                THEN /\ Raise("E4990AError", SweepHandler)
                     /\ UNCHANGED <<sw, clock>>
                ELSE /\ clock' = clock + sleep_time
                     /\ hist' = [hist EXCEPT !.sleeps = Append(@, sleep_time)]
                     /\ again
           ELSE /\ UNCHANGED <<clock, hist>>
                /\ again
    /\ UNCHANGED <<log, args, cfg, conn, file>>

\* the dictionary handed to scio.savemat
SavedRecord(s, c) ==
    [ biasVoltage |-> c.bias_voltage,
      biasCurrentMeasurement |-> s.bias_current_measurement,
      biasVoltageMeasurement |-> s.bias_voltage_measurement,
      oscillatorVoltage |-> c.oscillator_voltage,
      measurementSpeed |-> c.measurement_speed,
      numberOfSweepAverages |-> c.number_of_sweep_averages,
      numberOfPointAverages |-> c.number_of_point_averages,
      Frequency |-> s.x,
      X |-> s.yr,
      R |-> s.yx ]

\* run_sweep after the loop: scio.savemat
SaveResult ==
    /\ pc = "save"
    /\ file' = [saved |-> Append(file.saved, SavedRecord(sw, cfg))]
    /\ hist' = [hist EXCEPT !.saved_at = clock]
    /\ pc' = "bias_off"
    /\ UNCHANGED <<exc, log, args, cfg, conn, clock, sw>>

(* ---- acquire: cleanup ---------------------------------------------------- *)

\* the bias-off write outside the outer try/finally
BiasOffHandler_unguarded == "exit"

\* where an exception raised by the bias-off write lands: the outer finally
BiasOffHandler == "close"

BiasOffCommands == << Write(":SOUR:BIAS:STAT OFF", NoArg) >>

\* acquire: the inner finally, entered from run_sweep's return or raise
BiasOff ==
    /\ pc = "bias_off"
    /\ \/ /\ Sent(BiasOffCommands)
          /\ pc' = IF exc = "none" /\ cfg.plotting_enabled
                   THEN "press_enter" ELSE "close"
          /\ UNCHANGED <<exc, hist>>
       \/ IOError(BiasOffCommands, BiasOffHandler)
    /\ UNCHANGED <<args, cfg, conn, clock, sw, file>>

\* acquire: input("Press [ENTER] to exit")
PressEnter ==
    /\ pc = "press_enter"
    /\ pc' = "close"
    /\ UNCHANGED <<exc, log, args, cfg, conn, clock, sw, hist, file>>

(* ---- run_fixture_compensation -------------------------------------------- *)

PresetCommands == << Write(":SYST:PRES", NoArg) >>

\* run_fixture_compensation up to the call of configure_sweep_parameters
FixturePreset ==
    /\ pc = "fixture"
    /\ \/ /\ Sent(PresetCommands)
          /\ pc' = "fixture_configure"
          /\ UNCHANGED <<exc, hist>>
       \/ IOError(PresetCommands, FixtureHandler)
    /\ UNCHANGED <<args, cfg, conn, clock, sw, file>>

FixtureAcquireCommands ==
    << Write(":SENS1:CORR:COLL:FPO USER", NoArg) >> \o OscillatorCommands(500) \o
    << Write(":SENS1:CORR2:COLL:ACQ:OPEN", NoArg), Query("*OPC?"),
       Write(":SENS1:CORR2:COLL:ACQ:SHOR", NoArg), Query("*OPC?") >>

\* run_fixture_compensation after configure_sweep_parameters
FixtureAcquire ==
    /\ pc = "fixture_acquire"
    /\ \/ /\ Sent(FixtureAcquireCommands)
          /\ pc' = "close"
          /\ UNCHANGED <<exc, hist>>
       \/ IOError(FixtureAcquireCommands, FixtureHandler)
    /\ UNCHANGED <<args, cfg, conn, clock, sw, file>>

\* acquire: the outer finally, inst.close() and rm.close()
Close ==
    /\ pc = "close"
    /\ conn' = [conn EXCEPT !.inst = "closed", !.closes = @ + 1]
    /\ log' = Append(log, [op |-> "close", cmd |-> "close", arg |-> NoArg, t |-> clock])
    /\ pc' = "exit"
    /\ UNCHANGED <<exc, args, cfg, clock, sw, hist, file>>

\* main with `except E4990AError` in place of `except Exception`
ExitStatus_narrow(e) == IF e = "E4990AError" THEN 1 ELSE 0

\* main: sys.exit(1) in the handler of `except Exception`, status 0 otherwise
ExitStatus(e) == IF e = "none" THEN 0 ELSE 1

\* main: the exception handler and the exit status; args.debug, read only
\* here, selects the traceback or the one-line message
Exit ==
    /\ pc = "exit"
    /\ \E debug \in BOOLEAN :
          hist' = [hist EXCEPT !.exit_code = ExitStatus(exc),
                               !.report = IF exc = "none" THEN "none"
                                          ELSE IF debug THEN "traceback"
                                          ELSE "message"]
    /\ pc' = "done"
    /\ UNCHANGED <<exc, log, args, cfg, conn, clock, sw, file>>

Next ==
    \/ ParseArgs
    \/ ReadConfig
    \/ Discover
    \/ OpenResource
    \/ Identify
    \/ ConfigureSweepParameters
    \/ ValidateCompensation
    \/ ReadCompensationData
    \/ ConfigureSources
    \/ IntervalTrigger
    \/ IntervalRead
    \/ IntervalPlot
    \/ IntervalPace
    \/ SaveResult
    \/ BiasOff
    \/ PressEnter
    \/ FixturePreset
    \/ FixtureAcquire
    \/ Close
    \/ Exit

Spec == Init /\ [][Next]_vars

(* ======================================================================== *)
(* Properties                                                               *)
(* ======================================================================== *)

\* the log positions holding command c
Positions(c) == { k \in 1..Len(log) : log[k].cmd = c }

\* the single-trigger commands of the run, in order
Triggers == SelectSeq(log, LAMBDA e : e.cmd = ":TRIG:SING")

\* the steps of run_sweep before the result is written
SweepSteps ==
    {"sweep", "sweep_configure", "validate", "read_compensation", "sources",
     "acquire", "read", "plot", "pace"}

SweepRun == ~args.fixture_compensation

(* C1: the result writer runs at most once, and only after every one of the
   number_of_intervals intervals was triggered, read and paced without an
   error; a run in which any step of run_sweep before the writer raised
   leaves the output file as it was. *)
C1_NoPartialResult ==
    /\ Len(file.saved) <= 1
    /\ file.saved # <<>> =>
           /\ sw.i = cfg.number_of_intervals
           /\ Len(hist.rdat) = cfg.number_of_intervals
           /\ Len(Triggers) = cfg.number_of_intervals
           /\ cfg.interval_period # 0 => Len(hist.sleeps) = cfg.number_of_intervals
           /\ hist.raised_at \notin SweepSteps \cup {"read_config", "discover", "open"}
    /\ hist.raised_at \in SweepSteps => file.saved = <<>>

\* a run that ended on a cadence error after two intervals were read, the
\* output file still absent
C1_Witness ==
    /\ pc = "done"
    /\ hist.raised_at = "pace"
    /\ Len(hist.rdat) >= 2
    /\ file.saved = <<>>

(* C2: in a sweep run, once the connection is open every way out writes the
   bias-source-off command, and writes it before the connection is closed. *)
C2_BiasOffBeforeClose ==
    SweepRun =>
        /\ \A k \in 1..Len(log) :
               log[k].op = "close" =>
                   \E j \in 1..(k - 1) : log[j].cmd = ":SOUR:BIAS:STAT OFF"
        /\ (pc \in {"exit", "done"} /\ conn.inst # "none") =>
               /\ Positions(":SOUR:BIAS:STAT OFF") # {}
               /\ conn.inst = "closed"

\* a sweep run that failed while reading an interval and has ended
C2_Witness ==
    /\ SweepRun
    /\ pc = "done"
    /\ hist.raised_at = "read"
    /\ Positions(":SOUR:BIAS:STAT OFF") # {}

\* the pacing step finds the loop behind the schedule of interval i
BehindSchedule ==
    /\ pc = "pace"
    /\ cfg.interval_period # 0
    /\ clock - sw.start_time > cfg.interval_period * (sw.i + 1)

(* C3: with a non-zero interval_period, whenever the pacing step of interval
   i finds more than interval_period * (i + 1) elapsed since the loop began,
   the run raises the cadence error there: nothing is slept (no sleep is ever
   negative), no trigger follows, nothing is saved and the run exits with
   status 1. *)
C3_CadenceError ==
    /\ [][ BehindSchedule =>
             /\ pc' = "bias_off"
             /\ exc' = "E4990AError"
             /\ clock' = clock
             /\ hist'.sleeps = hist.sleeps
             /\ hist'.raised_at = "pace" ]_vars
    /\ [] /\ \A k \in 1..Len(hist.sleeps) : hist.sleeps[k] >= 0
          /\ hist.raised_at = "pace" =>
                 /\ Len(Triggers) = sw.i + 1
                 /\ file.saved = <<>>
                 /\ pc = "done" => hist.exit_code = 1

\* a run that fell behind in its second interval and has ended
C3_Witness ==
    /\ pc = "done"
    /\ hist.raised_at = "pace"
    /\ sw.i >= 1
    /\ clock - sw.start_time > cfg.interval_period * (sw.i + 1)

(* C4: with a non-zero interval_period, the trigger of interval i goes out at
   loop start + interval_period * i, whatever the earlier acquisitions
   took. *)
C4_AbsoluteSchedule ==
    cfg.interval_period # 0 =>
        \A j \in 1..Len(Triggers) :
            Triggers[j].t = sw.start_time + cfg.interval_period * (j - 1)

\* a completed paced run of at least two intervals whose first acquisition
\* took time
C4_Witness ==
    /\ pc = "done"
    /\ exc = "none"
    /\ cfg.interval_period # 0
    /\ Len(Triggers) >= 2
    /\ hist.sleeps[1] < cfg.interval_period
    /\ file.saved # <<>>

(* C5 as stated: column i of the persisted field X holds the even-indexed
   samples [y0, y2, ...] of interval i's read-back and column i of the
   persisted field R holds the odd-indexed samples [y1, y3, ...]. *)
C5_AsStated ==
    file.saved # <<>> =>
        \A i \in 1..Len(hist.rdat) : \A k \in 1..sw.number_of_points :
            /\ file.saved[1].X[i][k] = hist.rdat[i][2 * k - 1]
            /\ file.saved[1].R[i][k] = hist.rdat[i][2 * k]

(* C5 amended: column i of the persisted field R holds the even-indexed
   samples [y0, y2, ...] of interval i's read-back and column i of the
   persisted field X holds the odd-indexed samples [y1, y3, ...]; both
   columns have one entry per sweep point. *)
C5_Deinterleave ==
    file.saved # <<>> =>
        /\ Len(file.saved[1].R) = cfg.number_of_intervals
        /\ Len(file.saved[1].X) = cfg.number_of_intervals
        /\ \A i \in 1..Len(hist.rdat) :
               /\ Len(file.saved[1].R[i]) = sw.number_of_points
               /\ Len(file.saved[1].X[i]) = sw.number_of_points
               /\ \A k \in 1..sw.number_of_points :
                      /\ file.saved[1].R[i][k] = hist.rdat[i][2 * k - 1]
                      /\ file.saved[1].X[i][k] = hist.rdat[i][2 * k]

\* a saved result of two intervals of two points each
C5_Witness ==
    /\ file.saved # <<>>
    /\ Len(hist.rdat) >= 2
    /\ sw.number_of_points >= 2

\* the instrument answered the segment point-count query with a count other
\* than the sum of the configured segments
SegmentCountDiffers ==
    /\ cfg.segments.given
    /\ hist.segm_reply # None
    /\ hist.segm_reply # 10 * SumPoints(cfg.segments.table)

(* C6: for a segmented configuration, when the point count the instrument
   reports after the segment table is written differs from the sum of the
   configured segment point counts, the configurator raises the fatal error
   and the run never issues a trigger. *)
C6_SegmentMismatchFatal ==
    SegmentCountDiffers =>
        /\ ~hist.cfg_returned
        /\ hist.raised_at \in {"sweep_configure", "fixture_configure"}
        /\ hist.raised_exc = "E4990AError"
        /\ exc # "none"
        /\ Triggers = <<>>
        /\ pc \notin {"validate", "acquire", "read", "plot", "pace", "save"}
        /\ pc = "done" => hist.exit_code = 1

\* a sweep run over two segments that ended on the mismatch
C6_Witness ==
    /\ SegmentCountDiffers
    /\ SweepRun
    /\ Len(cfg.segments.table) >= 2
    /\ pc = "done"

\* the open-compensation data differs from the sweep in point count, in
\* length or in at least one frequency
CompensationDiffers ==
    \/ sw.number_of_points # sw.fix_cmp_number_of_points
    \/ Len(sw.fix_cmp_frequencies) # Len(sw.x)
    \/ \E k \in 1..Len(sw.x) : sw.fix_cmp_frequencies[k] # sw.x[k]

(* C7: the compensation check raises the fatal error whenever the
   open-compensation point count differs from the sweep's point count or the
   open-compensation frequency array differs from the sweep's in at least
   one element, and passes only when the counts are equal and the arrays are
   equal element by element. *)
C7_CompensationCheck ==
    /\ hist.validated = "fail" <=> (hist.validated # "no" /\ CompensationDiffers)
    /\ hist.validated = "fail" =>
           /\ hist.raised_at = "validate"
           /\ hist.raised_exc = "E4990AError"
           /\ Triggers = <<>>
    /\ hist.validated = "pass" => hist.raised_at # "validate"

\* the check failed on arrays of equal length and equal point count that
\* differ in exactly one frequency
C7_Witness ==
    /\ hist.validated = "fail"
    /\ sw.number_of_points = sw.fix_cmp_number_of_points
    /\ Len(sw.fix_cmp_frequencies) = Len(sw.x)
    /\ Len(sw.x) >= 2
    /\ Cardinality({ k \in 1..Len(sw.x) : sw.fix_cmp_frequencies[k] # sw.x[k] }) = 1

\* the commands the configurator sent
ConfiguratorLog == SubSeq(log, hist.cfg_from, hist.cfg_to)

(* C8: for a linear configuration (no segments key), the configurator
   returns the configured number_of_points and sends only write commands,
   no query. *)
C8_LinearNoQuery ==
    (~cfg.segments.given /\ hist.cfg_from > 0) =>
        /\ \A k \in 1..Len(ConfiguratorLog) : ConfiguratorLog[k].op = "write"
        /\ hist.cfg_returned => sw.number_of_points = cfg.number_of_points

\* the configurator returned for a linear plan of two points
C8_Witness ==
    /\ ~cfg.segments.given
    /\ hist.cfg_returned
    /\ cfg.number_of_points >= 2
    /\ Len(ConfiguratorLog) >= 11

(* C9: once open_resource has succeeded the connection is closed exactly
   once by the end of the run, whatever step failed, the bias-off write
   included, and nothing is sent to the instrument after the close. *)
C9_ClosedOnce ==
    /\ conn.closes <= 1
    /\ conn.closes = Cardinality({ k \in 1..Len(log) : log[k].op = "close" })
    /\ \A k \in 1..Len(log) : log[k].op = "close" => k = Len(log)
    /\ (pc \in {"exit", "done"} /\ conn.inst # "none") =>
           /\ conn.inst = "closed"
           /\ conn.closes = 1
    /\ conn.inst = "none" => log = <<>>

\* a run whose only failure was the bias-off write, closed once
C9_Witness ==
    /\ pc = "done"
    /\ hist.raised_at = "bias_off"
    /\ file.saved # <<>>
    /\ conn.closes = 1

(* C10 as stated: every configuration that supplies both a segments table and
   any of start_frequency, stop_frequency or number_of_points, whatever its
   value, is rejected by read_config before any instrument interaction: no
   resource manager, no listing, no connection, no command. *)
C10_AsStated ==
    ( /\ hist.file_read
      /\ cfg.segments.given /\ cfg.segments.table # <<>>
      /\ \/ cfg.start_frequency # None
         \/ cfg.stop_frequency # None
         \/ cfg.number_of_points # None ) =>
        /\ hist.raised_at = "read_config"
        /\ ~conn.rm /\ ~conn.listed /\ conn.inst = "none"
        /\ log = <<>>

\* the file names neither a segments table nor all three linear keys
IncompletePlan ==
    /\ hist.file_read
    /\ ~cfg.segments.given
    /\ \/ cfg.start_frequency = None
       \/ cfg.stop_frequency = None
       \/ cfg.number_of_points = None

(* C11 as stated: a configuration that gives neither segments nor a complete
   linear triple (start_frequency, stop_frequency, number_of_points) fails
   before any instrument interaction, and no sweep-setting command is ever
   written with a missing frequency or point-count value. *)
C11_AsStated ==
    /\ IncompletePlan =>
           /\ conn.inst = "none"
           /\ log = <<>>
           /\ pc = "done" => hist.raised_at = "read_config"
    /\ \A k \in 1..Len(log) :
           log[k].cmd \in {":SENS1:FREQ:START", ":SENS1:FREQ:STOP", ":SENS1:SWE:POIN"}
               => log[k].arg # None

\* the user declined to overwrite the existing output file
Declined == pc = "done" /\ ~hist.file_read

(* C12: the exit status is 1 whenever the acquisition raised any exception,
   of whatever kind and with the traceback or the message printed, and 0 when
   the run completed or the user declined to overwrite the output file; a
   declined run never touches the instrument. *)
C12_ExitStatus ==
    /\ pc = "done" =>
           /\ hist.exit_code \in {0, 1}
           /\ hist.exit_code = 1 <=> hist.raised_at # "none"
           /\ hist.exit_code = 1 <=> hist.report # "none"
    /\ pc # "done" => hist.exit_code = None
    /\ Declined =>
           /\ hist.exit_code = 0
           /\ log = <<>>
           /\ ~conn.rm /\ ~conn.listed /\ conn.inst = "none"
           /\ file.saved = <<>>

\* a run in debug mode that ended on an exception other than E4990AError
C12_Witness ==
    /\ pc = "done"
    /\ hist.raised_exc = "ValueError"
    /\ exc = "ValueError"
    /\ hist.report = "traceback"
    /\ hist.exit_code = 1

(* C13: every single-trigger command of a run comes after the configurator
   returned and after the compensation check passed; the configurator itself
   sends no trigger, and a run that raised in identification, configuration
   or validation has sent none. *)
C13_Gated ==
    /\ \A k \in 1..Len(log) :
           log[k].cmd = ":TRIG:SING" =>
               /\ hist.cfg_returned
               /\ k > hist.cfg_to
               /\ hist.validated = "pass"
               /\ ~CompensationDiffers
               /\ \E j \in (hist.cfg_to + 1)..(k - 1) :
                      log[j].cmd = ":SENS1:CORR2:ZME:OPEN:POIN?"
    /\ hist.cfg_from > 0 =>
           \A k \in 1..Len(ConfiguratorLog) : ConfiguratorLog[k].cmd # ":TRIG:SING"
    /\ hist.raised_at \in {"sweep", "sweep_configure", "validate", "fixture",
                           "fixture_configure", "fixture_acquire"} =>
           Triggers = <<>>

\* a segmented run that passed both gates and triggered twice
C13_Witness ==
    /\ cfg.segments.given
    /\ hist.cfg_returned
    /\ hist.validated = "pass"
    /\ Len(Triggers) >= 2

\* the result matrices exist: the loop was reached
Allocated ==
    \/ pc \in {"acquire", "read", "plot", "pace", "save"}
    \/ Triggers # <<>>
    \/ file.saved # <<>>

\* column c of both matrices is still as numpy.zeros left it
Untouched(c) ==
    \A k \in 1..sw.number_of_points : sw.yx[c][k] = 0 /\ sw.yr[c][k] = 0

(* C14: the matrices are number_of_points x number_of_intervals from the
   allocation on and are never resized; interval i is triggered once, in
   increasing order of i, and column i is written once, from interval i's
   read-back, while the columns of later intervals stay zero; a completed
   run has issued exactly number_of_intervals triggers and a run that
   failed in interval k at most k + 1. *)
C14_OneSweepPerInterval ==
    /\ [] /\ Allocated =>
                 /\ Len(sw.yx) = cfg.number_of_intervals
                 /\ Len(sw.yr) = cfg.number_of_intervals
                 /\ \A c \in 1..cfg.number_of_intervals :
                        /\ Len(sw.yx[c]) = sw.number_of_points
                        /\ Len(sw.yr[c]) = sw.number_of_points
                        /\ IF c <= Len(hist.rdat)
                           THEN \A k \in 1..sw.number_of_points :
                                    {sw.yx[c][k], sw.yr[c][k]} =
                                        {hist.rdat[c][2 * k - 1], hist.rdat[c][2 * k]}
                           ELSE Untouched(c)
          /\ pc = "acquire" => Len(Triggers) = sw.i /\ sw.i < cfg.number_of_intervals
          /\ pc \in {"read", "plot", "pace"} => Len(Triggers) = sw.i + 1
          /\ Len(Triggers) <= cfg.number_of_intervals
          /\ hist.raised_at \in {"acquire", "read", "plot", "pace"} =>
                 Len(Triggers) <= sw.i + 1
          /\ file.saved # <<>> =>
                 /\ Len(Triggers) = cfg.number_of_intervals
                 /\ Len(hist.rdat) = cfg.number_of_intervals
    /\ [][ /\ sw'.i \in {sw.i, sw.i + 1}
           /\ Len(sw.yx) > 0 => Len(sw'.yx) = Len(sw.yx) /\ Len(sw'.yr) = Len(sw.yr)
           /\ \A c \in 1..Len(sw.yx) :
                  (sw'.yx[c] # sw.yx[c] \/ sw'.yr[c] # sw.yr[c]) =>
                      /\ pc = "read"
                      /\ c = sw.i + 1
                      /\ Untouched(c) ]_vars

\* a completed run of two intervals of two points
C14_Witness ==
    /\ pc = "done"
    /\ exc = "none"
    /\ file.saved # <<>>
    /\ Len(Triggers) >= 2
    /\ sw.number_of_points >= 2

\* the commands of the loop body that the claim orders, as sent
IntervalSteps ==
    SelectSeq(log, LAMBDA e :
        e.cmd \in {":SENS1:DC:MEAS:CLE", ":TRIG:SING", "*OPC?", ":CALC1:DATA:RDAT?",
                   ":SENS1:DC:MEAS:DATA:DCI?", ":SENS1:DC:MEAS:DATA:DCV?"})

\* the *OPC? queries and the data read-backs of the run, in order
Completions == SelectSeq(log, LAMBDA e : e.cmd = "*OPC?")
Reads == SelectSeq(log, LAMBDA e : e.cmd = ":CALC1:DATA:RDAT?")

\* the order the claim gives for one interval
IntervalOrder ==
    IF cfg.bias_voltage # 0
    THEN << ":SENS1:DC:MEAS:CLE", ":TRIG:SING", "*OPC?", ":CALC1:DATA:RDAT?",
            ":SENS1:DC:MEAS:DATA:DCI?", ":SENS1:DC:MEAS:DATA:DCV?" >>
    ELSE << ":TRIG:SING", "*OPC?", ":CALC1:DATA:RDAT?" >>

(* C15: in a sweep run the loop commands go out, interval after interval, in
   the order DC-measurement clear (bias only), trigger, *OPC?, data
   read-back, bias current and voltage reads (bias only); the pacing check
   of interval i comes after all of them, and the first command of interval
   i + 1 after the pacing step of interval i. *)
C15_IntervalOrder ==
    SweepRun =>
        /\ \A j \in 1..Len(IntervalSteps) :
               IntervalSteps[j].cmd =
                   IntervalOrder[((j - 1) % Len(IntervalOrder)) + 1]
        /\ pc = "acquire" => Len(IntervalSteps) = sw.i * Len(IntervalOrder)
        /\ pc \in {"plot", "pace"} =>
               Len(IntervalSteps) = (sw.i + 1) * Len(IntervalOrder)
        /\ hist.raised_at = "pace" =>
               Len(IntervalSteps) = (sw.i + 1) * Len(IntervalOrder)
        /\ Len(hist.sleeps) * Len(IntervalOrder) <= Len(IntervalSteps)
        /\ \A j \in 1..Len(Reads) :
               /\ Reads[j].t >= Completions[j].t
               /\ j < Len(Triggers) => Triggers[j + 1].t >= Reads[j].t

\* a biased run that finished two intervals
C15_Witness ==
    /\ SweepRun
    /\ pc = "done"
    /\ cfg.bias_voltage # 0
    /\ Len(IntervalSteps) >= 12
    /\ Len(hist.sleeps) >= 2

(* C16: in a sweep run with bias_voltage 0 the bias source is never switched
   on, DC measurement is switched off, no DC-measurement clear or read is
   sent and both bias arrays of the result are empty; with a non-zero
   bias_voltage the bias source and DC measurement are switched on before
   the first trigger and the result holds, in column i, the one current and
   the one voltage reading of interval i. *)
C16_BiasHandling ==
    SweepRun =>
        /\ cfg.bias_voltage = 0 =>
               /\ Positions(":SOUR:BIAS:STAT ON") = {}
               /\ Positions(":SENS1:DC:MEAS:ENAB ON") = {}
               /\ Positions(":SENS1:DC:MEAS:CLE") = {}
               /\ Positions(":SENS1:DC:MEAS:DATA:DCI?") = {}
               /\ Positions(":SENS1:DC:MEAS:DATA:DCV?") = {}
               /\ Allocated => Positions(":SENS1:DC:MEAS:ENAB OFF") # {}
               /\ file.saved # <<>> =>
                      /\ file.saved[1].biasCurrentMeasurement = <<>>
                      /\ file.saved[1].biasVoltageMeasurement = <<>>
        /\ cfg.bias_voltage # 0 =>
               /\ Positions(":SENS1:DC:MEAS:ENAB OFF") = {}
               /\ \A k \in Positions(":TRIG:SING") :
                      /\ \E j \in 1..(k - 1) : log[j].cmd = ":SOUR:BIAS:STAT ON"
                      /\ \E j \in 1..(k - 1) : log[j].cmd = ":SENS1:DC:MEAS:ENAB ON"
               /\ file.saved # <<>> =>
                      /\ Len(file.saved[1].biasCurrentMeasurement) = cfg.number_of_intervals
                      /\ Len(file.saved[1].biasVoltageMeasurement) = cfg.number_of_intervals
                      /\ Len(hist.dc) = cfg.number_of_intervals
                      /\ Cardinality(Positions(":SENS1:DC:MEAS:DATA:DCI?")) =
                             cfg.number_of_intervals
                      /\ Cardinality(Positions(":SENS1:DC:MEAS:DATA:DCV?")) =
                             cfg.number_of_intervals
                      /\ \A i \in 1..cfg.number_of_intervals :
                             /\ file.saved[1].biasCurrentMeasurement[i] = hist.dc[i].dci
                             /\ file.saved[1].biasVoltageMeasurement[i] = hist.dc[i].dcv

\* a saved biased run whose two intervals read different bias values
C16_Witness ==
    /\ SweepRun
    /\ cfg.bias_voltage # 0
    /\ file.saved # <<>>
    /\ Len(hist.dc) >= 2
    /\ hist.dc[1] # hist.dc[2]

(* C17: with interval_period 0 the loop never sleeps and never raises the
   cadence error, whatever the acquisitions took, and the trigger of each
   interval goes out at the time the previous interval's read-back was
   made. *)
C17_NoPacing ==
    (SweepRun /\ cfg.interval_period = 0) =>
        /\ hist.sleeps = <<>>
        /\ hist.raised_at # "pace"
        /\ \A j \in 1..Len(Triggers) :
               j > 1 => /\ Len(Reads) >= j - 1
                        /\ Triggers[j].t = Reads[j - 1].t
        /\ (pc = "save" /\ Reads # <<>>) => clock = Reads[Len(Reads)].t

\* an unpaced run of two intervals whose first acquisition took time
C17_Witness ==
    /\ SweepRun
    /\ cfg.interval_period = 0
    /\ pc = "done"
    /\ file.saved # <<>>
    /\ Len(Triggers) >= 2
    /\ Triggers[2].t > Triggers[1].t

\* the configurator sent command c with value a
Configured(c, a) ==
    \E k \in 1..Len(ConfiguratorLog) :
        ConfiguratorLog[k].cmd = c /\ ConfiguratorLog[k].arg = a

(* C18: when the configurator returns, per-point averaging is switched on
   with the configured point-average count; sweep averaging is switched on,
   with the configured count, exactly when number_of_sweep_averages > 1, and
   is switched off explicitly otherwise. *)
C18_Averaging ==
    hist.cfg_returned =>
        /\ Configured(":SENS1:AVER:COUN", cfg.number_of_point_averages)
        /\ Configured(":SENS1:AVER:STAT ON", NoArg)
        /\ cfg.number_of_sweep_averages > 1 <=> Configured(":CALC1:AVER ON", NoArg)
        /\ cfg.number_of_sweep_averages > 1 <=> Configured(":TRIG:SEQ:AVER ON", NoArg)
        /\ cfg.number_of_sweep_averages > 1 =>
               Configured(":CALC1:AVER:COUN", cfg.number_of_sweep_averages)
        /\ cfg.number_of_sweep_averages <= 1 <=> Configured(":CALC1:AVER OFF", NoArg)

\* the configurator returned for two sweep averages and two point averages
C18_Witness ==
    /\ hist.cfg_returned
    /\ cfg.number_of_sweep_averages = 2
    /\ cfg.number_of_point_averages = 2
    /\ Configured(":CALC1:AVER ON", NoArg)

(* C19: no run ever queries the short-compensation frequency array or point
   count, the short-compensation impedance data is read only after the check
   has passed, and the check fails exactly when the sweep and the
   open-compensation data differ: its outcome is a function of data that
   does not include the short compensation. *)
C19_ShortNotConsulted ==
    /\ Positions(":SENS1:CORR2:ZME:SHOR:FREQ?") = {}
    /\ Positions(":SENS1:CORR2:ZME:SHOR:POIN?") = {}
    /\ Positions(":SENS1:CORR2:ZME:SHOR:DATA?") # {} => hist.validated = "pass"
    /\ hist.validated # "no" =>
           /\ Positions(":SENS1:CORR2:ZME:OPEN:FREQ?") # {}
           /\ Positions(":SENS1:CORR2:ZME:OPEN:POIN?") # {}
           /\ hist.validated = "pass" <=> ~CompensationDiffers

\* the check passed and the short-compensation impedance was then read
C19_Witness ==
    /\ hist.validated = "pass"
    /\ Positions(":SENS1:CORR2:ZME:SHOR:DATA?") # {}
    /\ Triggers # <<>>

(* C20: with a non-zero interval_period the pacing step also runs after the
   last interval: the result is written no earlier than loop start +
   interval_period * number_of_intervals, after one sleep per interval, and
   a cadence error raised after the last read-back leaves the run without
   output. *)
C20_FinalPacing ==
    /\ (cfg.interval_period # 0 /\ pc = "save") =>
           clock >= sw.start_time + cfg.interval_period * cfg.number_of_intervals
    /\ (cfg.interval_period # 0 /\ file.saved # <<>>) =>
           /\ hist.saved_at >=
                  sw.start_time + cfg.interval_period * cfg.number_of_intervals
           /\ Len(hist.sleeps) = cfg.number_of_intervals
    /\ hist.raised_at = "pace" =>
           /\ file.saved = <<>>
           /\ pc # "save"

\* a run of two intervals that read all its data, fell behind at the last
\* pacing step and ended without output
C20_Witness ==
    /\ pc = "done"
    /\ hist.raised_at = "pace"
    /\ cfg.number_of_intervals >= 2
    /\ Len(hist.rdat) = cfg.number_of_intervals
    /\ file.saved = <<>>

\* the log positions of the connection being closed
Closings == { k \in 1..Len(log) : log[k].op = "close" }

(* C21: the bias-source-on command is written only in a sweep run whose
   configurator returned and whose compensation check passed, after the
   check's queries; a run in which configuration or the check failed never
   writes it; and every bias-on command in the log is followed by a
   bias-off command that precedes the closing of the connection, which
   every ended run that switched the bias on has reached. *)
C21_BiasOnAfterValidation ==
    /\ \A k \in Positions(":SOUR:BIAS:STAT ON") :
           /\ SweepRun
           /\ cfg.bias_voltage # 0
           /\ hist.cfg_returned
           /\ hist.validated = "pass"
           /\ ~CompensationDiffers
           /\ \E j \in 1..(k - 1) : log[j].cmd = ":SENS1:CORR2:ZME:OPEN:POIN?"
    /\ hist.raised_at \in {"sweep", "sweep_configure", "validate"} =>
           Positions(":SOUR:BIAS:STAT ON") = {}
    /\ \A c \in Closings :
           \A k \in Positions(":SOUR:BIAS:STAT ON") :
               /\ k < c
               /\ \E j \in (k + 1)..(c - 1) : log[j].cmd = ":SOUR:BIAS:STAT OFF"
    /\ (pc \in {"exit", "done"} /\ Positions(":SOUR:BIAS:STAT ON") # {}) =>
           Closings # {}

\* a biased run that switched the bias on, failed in a later interval and
\* ended with the connection closed
C21_Witness ==
    /\ pc = "done"
    /\ Positions(":SOUR:BIAS:STAT ON") # {}
    /\ hist.raised_at \in {"acquire", "read", "plot", "pace"}
    /\ Closings # {}

====
